---- MODULE Spec2Model ----
(***************************************************************************)
(* FileBox<T> (src/src/lib.rs): a value kept in memory and bound to one    *)
(* file.  The constructors open the file with io::Truncate, Deref/DerefMut *)
(* give access to the value, Drop encodes the value and writes it to the   *)
(* file handle, delete unlinks the path.                                   *)
(*                                                                         *)
(* The model has one path p, a file system with inodes (a File handle      *)
(* names an inode, so a handle survives the unlink of its path), and a     *)
(* bounded number of FileBox instances.  T is a String: bincode writes a   *)
(* length prefix followed by the bytes, and decoding reads exactly what it *)
(* needs from the reader and checks that the bytes are valid characters.   *)
(* Every file-system call and the encoder may fail; the failures are the   *)
(* parameters of the actions.                                              *)
(***************************************************************************)
EXTENDS Integers, Sequences, FiniteSets, TLC

VARIABLES fs, cells, mode, last

vars == <<fs, cells, mode, last>>

\* Bounds of the model.
MaxLen == 1
MaxFileLen == MaxLen + 1
NumCells == 2

----------------------------------------------------------------------------
\* Bytes, values and the codec

Byte == 0..1

\* The byte that is a valid character of a String; the other byte stands for
\* a byte sequence that is not valid UTF-8.
Char == {0}

SeqsUpTo(S, k) == UNION {[1..m -> S] : m \in 0..k}

\* The values of T the holder supplies: the Strings of at most MaxLen chars.
Val == SeqsUpTo(Char, MaxLen)

\* Default::default() of String.
Default == <<>>

\* bincode::encode of a String: the length, then the bytes.
encode(v) == <<Len(v)>> \o v

\* Mutant of decode_from: an empty reader yields the default value.
decode_from_lenient(bytes) ==
    IF Len(bytes) = 0
    THEN [ok |-> TRUE, val |-> <<>>]
    ELSE LET k == bytes[1]
             s == SubSeq(bytes, 2, 1 + k)
         IN  IF Len(bytes) < 1 + k
             THEN [ok |-> FALSE, val |-> <<>>]
             ELSE IF \A i \in 1..k : s[i] \in Char
                  THEN [ok |-> TRUE, val |-> s]
                  ELSE [ok |-> FALSE, val |-> <<>>]

\* bincode::decode_from a reader over `bytes`: reads the length, then that
\* many bytes (EndOfFile when the reader runs dry), and checks the characters.
\* Bytes of the reader past the value are not read.
decode_from(bytes) ==
    IF Len(bytes) = 0
    THEN [ok |-> FALSE, val |-> <<>>]
    ELSE LET k == bytes[1]
             s == SubSeq(bytes, 2, 1 + k)
         IN  IF Len(bytes) < 1 + k
             THEN [ok |-> FALSE, val |-> <<>>]
             ELSE IF \A i \in 1..k : s[i] \in Char
                  THEN [ok |-> TRUE, val |-> s]
                  ELSE [ok |-> FALSE, val |-> <<>>]

----------------------------------------------------------------------------
\* The file system: fs.dir is the inode the path p names (0: no file) and
\* fs.data the bytes of each inode.  An inode is in use while the path names
\* it or a File handle is open on it; an inode not in use holds no bytes.

Inode == 1..NumCells

NoFile == 0

\* The inodes File handles are open on.
Held == {cells[c].ino : c \in {x \in 1..NumCells : cells[x].st = "Live"}}

\* The inode a new file gets.
FreeInode == CHOOSE i \in Inode : i \notin Held /\ \A j \in Inode \ Held : i <= j

exists(f) == f.dir # NoFile

\* The bytes of the file at path p (none when there is no file).
Contents(f) == IF exists(f) THEN f.data[f.dir] ELSE <<>>

\* Mutant of OpenTruncate: the file is opened without io::Truncate.
OpenKeep(f) ==
    IF exists(f) THEN f ELSE [f EXCEPT !.dir = FreeInode]

\* File::open_mode(p, io::Truncate, io::Write) succeeding: the file is made
\* when it is missing and cut to length 0 when it is there.
OpenTruncate(f) ==
    IF exists(f)
    THEN [f EXCEPT !.data[f.dir] = <<>>]
    ELSE [f EXCEPT !.dir = FreeInode]

\* File::write of `bytes` through a handle on inode `ino` positioned at 0
\* (a handle is written once, in drop): the bytes replace the first
\* Len(bytes) bytes of the inode and the rest stays.
Write(f, ino, bytes) ==
    [f EXCEPT !.data[ino] =
        bytes \o SubSeq(f.data[ino], Len(bytes) + 1, Len(f.data[ino]))]

\* Mutant of unlink: the path is left in place.
unlink_kept(f) == f

\* fs::unlink(path) succeeding: the path names nothing any more; the inode
\* lives on for the handles that are open on it.
unlink(f) ==
    [dir |-> NoFile,
     data |-> [f.data EXCEPT ![f.dir] = IF f.dir \in Held THEN @ ELSE <<>>]]

\* The drop of a File that is open on inode `ino`: the handle is closed, and
\* the inode goes when this was its last handle and no path names it.
close(f, c, ino) ==
    IF f.dir = ino \/ \E x \in 1..NumCells :
                        x # c /\ cells[x].st = "Live" /\ cells[x].ino = ino
    THEN f
    ELSE [f EXCEPT !.data[ino] = <<>>]

----------------------------------------------------------------------------
\* FileBox instances

Cell == 1..NumCells

NoCell ==
    [st |-> "Uninitialized", val |-> <<>>, ino |-> 0, origin |-> "none",
     alone |-> TRUE, writes |-> 0, flushed |-> FALSE]

\* The instances constructed so far; they are numbered in construction order.
n == Cardinality({c \in Cell : cells[c].st # "Uninitialized"})

Live(c) == cells[c].st = "Live"

\* struct FileBox { _file, _val }: st is the lifecycle state, ino the inode of
\* _file, val is _val.  origin, alone, writes and flushed are history: which
\* of open_new and open built the struct (new and open_or_new call one of
\* them), whether no other instance was Live during this one's life, the
\* number of File::write calls made on _file, and whether drop has returned
\* without a panic.
FileBox(origin, v, ino) ==
    [st |-> "Live", val |-> v, ino |-> ino, origin |-> origin,
     alone |-> ~\E c \in Cell : Live(c), writes |-> 0, flushed |-> FALSE]

Construct(origin, v, ino) ==
    cells' = [c \in Cell |->
                IF c = n + 1 THEN FileBox(origin, v, ino)
                ELSE IF Live(c) THEN [cells[c] EXCEPT !.alone = FALSE]
                ELSE cells[c]]

Result(op, res, fault) ==
    [op |-> op, res |-> res, fault |-> fault]

Init ==
    /\ fs \in {[dir |-> NoFile, data |-> [i \in Inode |-> <<>>]]}
          \cup {[dir |-> 1,
                 data |-> [i \in Inode |-> IF i = 1 THEN b ELSE <<>>]]
                : b \in SeqsUpTo(Byte, MaxFileLen)}
    /\ cells = [c \in Cell |-> NoCell]
    /\ mode = "running"
    /\ last = [op |-> "none", res |-> "Ok", fault |-> FALSE]

\* Mutant of do_open_new: the value is written to the file at construction.
do_open_new_store(op, v, ok) ==
    /\ mode = "running"
    /\ IF ok
       THEN /\ n < NumCells
            /\ fs' = Write(OpenTruncate(fs), OpenTruncate(fs).dir, encode(v))
            /\ Construct("open_new", v, fs'.dir)
            /\ last' = Result(op, "Ok", FALSE)
       ELSE /\ UNCHANGED <<fs, cells>>
            /\ last' = Result(op, "IoError", TRUE)
    /\ UNCHANGED mode

\* FileBox::open_new(p, val), called as `op`; ok: File::open_mode succeeds.
do_open_new(op, v, ok) ==
    /\ mode = "running"
    /\ IF ok
       THEN /\ n < NumCells
            /\ fs' = OpenTruncate(fs)
            /\ Construct("open_new", v, fs'.dir)
            /\ last' = Result(op, "Ok", FALSE)
       ELSE /\ UNCHANGED <<fs, cells>>
            /\ last' = Result(op, "IoError", TRUE)
    /\ UNCHANGED mode

\* Mutant of do_open: the file is reopened for writing without io::Truncate.
do_open_keep(op, fault) ==
    /\ mode = "running"
    /\ LET d == decode_from(Contents(fs))
       IN  IF ~exists(fs) \/ fault = "open"
           THEN /\ UNCHANGED <<fs, cells>>
                /\ last' = Result(op, "IoError", fault # "none")
           ELSE IF fault = "read"
           THEN /\ UNCHANGED <<fs, cells>>
                /\ last' = Result(op, "IoError", TRUE)
           ELSE IF ~d.ok
           THEN /\ UNCHANGED <<fs, cells>>
                /\ last' = Result(op, "DecodeError", FALSE)
           ELSE IF fault = "truncate"
           THEN /\ UNCHANGED <<fs, cells>>
                /\ last' = Result(op, "IoError", TRUE)
           ELSE /\ n < NumCells
                /\ fs' = OpenKeep(fs)
                /\ Construct("open", d.val, fs'.dir)
                /\ last' = Result(op, "Ok", FALSE)
    /\ UNCHANGED mode

\* Mutant of do_open: the file is opened once, for reading and writing with
\* io::Truncate, before it is read.
do_open_early(op, fault) ==
    /\ mode = "running"
    /\ LET d == decode_from(Contents(fs))
       IN  IF ~exists(fs) \/ fault = "open"
           THEN /\ UNCHANGED <<fs, cells>>
                /\ last' = Result(op, "IoError", fault # "none")
           ELSE IF fault = "read"
           THEN /\ fs' = OpenTruncate(fs)
                /\ UNCHANGED cells
                /\ last' = Result(op, "IoError", TRUE)
           ELSE IF ~d.ok
           THEN /\ fs' = OpenTruncate(fs)
                /\ UNCHANGED cells
                /\ last' = Result(op, "DecodeError", FALSE)
           ELSE IF fault = "truncate"
           THEN /\ UNCHANGED <<fs, cells>>
                /\ last' = Result(op, "IoError", TRUE)
           ELSE /\ n < NumCells
                /\ fs' = OpenTruncate(fs)
                /\ Construct("open", d.val, fs'.dir)
                /\ last' = Result(op, "Ok", FALSE)
    /\ UNCHANGED mode

\* FileBox::open(p), called as `op`; fault names the file-system call that
\* fails: the open for reading, the read, or the reopen with io::Truncate.
do_open(op, fault) ==
    /\ mode = "running"
    /\ LET d == decode_from(Contents(fs))
       IN  IF ~exists(fs) \/ fault = "open"
           THEN /\ UNCHANGED <<fs, cells>>
                /\ last' = Result(op, "IoError", fault # "none")
           ELSE IF fault = "read"
           THEN /\ UNCHANGED <<fs, cells>>
                /\ last' = Result(op, "IoError", TRUE)
           ELSE IF ~d.ok
           THEN /\ UNCHANGED <<fs, cells>>
                /\ last' = Result(op, "DecodeError", FALSE)
           ELSE IF fault = "truncate"
           THEN /\ UNCHANGED <<fs, cells>>
                /\ last' = Result(op, "IoError", TRUE)
           ELSE /\ n < NumCells
                /\ fs' = OpenTruncate(fs)
                /\ Construct("open", d.val, fs'.dir)
                /\ last' = Result(op, "Ok", FALSE)
    /\ UNCHANGED mode

Fault == {"none", "open", "read", "truncate"}

open_new == \E v \in Val, ok \in BOOLEAN : do_open_new("open_new", v, ok)

open == \E fault \in Fault : do_open("open", fault)

\* Mutant of new: the instance is made with a value that is not the default.
new_nondefault == \E ok \in BOOLEAN : do_open_new("new", <<0>>, ok)

\* FileBox::new(p)
new == \E ok \in BOOLEAN : do_open_new("new", Default, ok)

\* Mutant of open_or_new: the file is created whether or not it exists.
open_or_new_create ==
    \E ok \in BOOLEAN : do_open_new("open_or_new", Default, ok)

\* Mutant of open_or_new: a file that does not decode is replaced by a new
\* one holding the default value.
open_or_new_fallback ==
    IF exists(fs) /\ decode_from(Contents(fs)).ok
    THEN \E fault \in Fault : do_open("open_or_new", fault)
    ELSE \E ok \in BOOLEAN : do_open_new("open_or_new", Default, ok)

\* FileBox::open_or_new(p)
open_or_new ==
    IF exists(fs)
    THEN \E fault \in Fault : do_open("open_or_new", fault)
    ELSE \E ok \in BOOLEAN : do_open_new("open_or_new", Default, ok)

\* Mutant of deref_mut: the assignment is written through to the file.
deref_mut_through(c) ==
    /\ mode = "running"
    /\ Live(c)
    /\ \E v \in Val :
         /\ v # cells[c].val
         /\ cells' = [cells EXCEPT ![c].val = v, ![c].writes = @ + 1]
         /\ fs' = Write(fs, cells[c].ino, encode(v))
    /\ last' = Result("deref_mut", "Ok", FALSE)
    /\ UNCHANGED mode

\* DerefMut::deref_mut and an assignment through it.
deref_mut(c) ==
    /\ mode = "running"
    /\ Live(c)
    /\ \E v \in Val :
         /\ v # cells[c].val
         /\ cells' = [cells EXCEPT ![c].val = v]
    /\ last' = Result("deref_mut", "Ok", FALSE)
    /\ UNCHANGED <<fs, mode>>

\* Mutant of drop_effect: drop returns without writing.
drop_effect_skip(f, c, st, encOk, wr) ==
    [fs |-> close(f, c, cells[c].ino), panic |-> FALSE,
     cell |-> [cells[c] EXCEPT !.st = st, !.ino = 0, !.flushed = TRUE]]

\* Mutant of drop_effect: the results of encode and write are ignored.
drop_effect_swallow(f, c, st, encOk, wr) ==
    LET bytes == encode(cells[c].val)
        k     == IF wr < Len(bytes) THEN wr ELSE Len(bytes)
    IN  IF ~encOk
        THEN [fs |-> close(f, c, cells[c].ino), panic |-> FALSE,
              cell |-> [cells[c] EXCEPT !.st = st, !.ino = 0]]
        ELSE [fs |-> close(Write(f, cells[c].ino, SubSeq(bytes, 1, k)), c,
                           cells[c].ino),
              panic |-> FALSE,
              cell |-> [cells[c] EXCEPT !.st = st, !.ino = 0,
                                        !.writes = @ + 1,
                                        !.flushed = (k = Len(bytes))]]

\* Drop::drop of instance c on file system f, then the drop of its fields.
\* encOk: bincode::encode succeeds (unwrap panics otherwise, before any
\* write); wr: the bytes File::write gets onto the file, all of them when it
\* succeeds (expect panics otherwise).
drop_effect(f, c, st, encOk, wr) ==
    LET bytes == encode(cells[c].val)
        k     == IF wr < Len(bytes) THEN wr ELSE Len(bytes)
    IN  IF ~encOk
        THEN [fs |-> close(f, c, cells[c].ino), panic |-> TRUE,
              cell |-> [cells[c] EXCEPT !.st = st, !.ino = 0]]
        ELSE [fs |-> close(Write(f, cells[c].ino, SubSeq(bytes, 1, k)), c,
                           cells[c].ino),
              panic |-> k < Len(bytes),
              cell |-> [cells[c] EXCEPT !.st = st, !.ino = 0,
                                        !.writes = @ + 1,
                                        !.flushed = (k = Len(bytes))]]

\* A panic while the task is running unwinds it; a panic while it is
\* unwinding aborts the process.
AfterPanic == IF mode = "running" THEN "panicking" ELSE "aborted"

\* The instance goes out of scope (also while the task unwinds).
drop(c) ==
    /\ mode \in {"running", "panicking"}
    /\ Live(c)
    /\ \E encOk \in BOOLEAN, wr \in 0..Len(encode(cells[c].val)) :
         LET e == drop_effect(fs, c, "Closed", encOk, wr)
         IN  /\ fs' = e.fs
             /\ cells' = [cells EXCEPT ![c] = e.cell]
             /\ mode' = IF e.panic THEN AfterPanic ELSE mode
             /\ last' = Result("drop", IF e.panic THEN "Panic" ELSE "Ok",
                               e.panic)

\* FileBox::delete(self): fs::unlink of the path, then self goes out of scope
\* at the end of the function, which runs Drop::drop.
delete(c) ==
    /\ mode = "running"
    /\ Live(c)
    /\ \E unlinkOk \in BOOLEAN, encOk \in BOOLEAN,
          wr \in 0..Len(encode(cells[c].val)) :
         LET removed == exists(fs) /\ unlinkOk
             e == drop_effect(IF removed THEN unlink(fs) ELSE fs, c,
                              "Deleted", encOk, wr)
         IN  /\ fs' = e.fs
             /\ cells' = [cells EXCEPT ![c] = e.cell]
             /\ mode' = IF e.panic THEN AfterPanic ELSE mode
             /\ last' = Result("delete",
                               IF e.panic THEN "Panic"
                               ELSE IF removed THEN "Ok" ELSE "IoError",
                               ~unlinkOk \/ e.panic)

Next ==
    \/ open_new
    \/ open
    \/ new
    \/ open_or_new
    \/ \E c \in Cell : deref_mut(c)
    \/ \E c \in Cell : drop(c)
    \/ \E c \in Cell : delete(c)

Spec == Init /\ [][Next]_vars

----------------------------------------------------------------------------
\* Vocabulary of the properties

Constructors == {"open_new", "open", "new", "open_or_new"}

EntryPoints == Constructors \cup {"delete"}

\* Instance c went out of scope, its drop returned, and no other instance
\* was Live while it was.
FlushedAlone(c) ==
    cells[c].st = "Closed" /\ cells[c].flushed /\ cells[c].alone

\* The last call was a constructor that returned instance c.
JustMade(c, op) ==
    last.op = op /\ last.res = "Ok" /\ n = c

\* Some prefix of `bytes` is the encoding of a value (a reader-based decoder
\* reads no further than the value).
ValidEncoding(bytes) ==
    \E k \in 1..Len(bytes), v \in SeqsUpTo(Char, Len(bytes)) :
        SubSeq(bytes, 1, k) = encode(v)

----------------------------------------------------------------------------
\* C1: when an instance made by open_new(p, v0) was the only one on the path
\* and went out of scope with a successful flush holding v1, the open(p) that
\* follows fails only when a file-system call fails, never with a decode
\* error, and the instance it returns holds v1.
PersistLatestRoundTrip ==
    \A c \in Cell :
        (cells[c].origin = "open_new" /\ FlushedAlone(c) /\ last.op = "open")
        => /\ n = c => last.res = "IoError" /\ last.fault
           /\ (n = c + 1 /\ last.res = "Ok") => cells[n].val = cells[c].val

RoundTripWitness ==
    /\ cells[1].origin = "open_new" /\ FlushedAlone(1)
    /\ cells[1].val # Default
    /\ JustMade(2, "open")
    /\ cells[2].val = cells[1].val

\* C2: an instance consumed by delete has made no write on its file handle.
DeleteNeverFlushes ==
    \A c \in Cell : cells[c].st = "Deleted" => cells[c].writes = 0

\* C3: while an instance is Live, the bytes of its backing file are a valid
\* encoding of a value.
OnDiskValid ==
    \A c \in Cell :
        Live(c) /\ fs.dir = cells[c].ino => ValidEncoding(Contents(fs))

\* C4: every call of a constructor or of delete returns Ok or an error; none
\* ends in a panic.
NoEntryPointPanics ==
    last.op \in EntryPoints => last.res \in {"Ok", "IoError", "DecodeError"}

\* C5: a delete that returns Ok leaves no file at the path; the file stays
\* absent until a constructor creates it (the release of the deleted
\* instance's handle and the flush of any other instance do not bring it
\* back); and an open while it is absent returns an I/O error and no instance.
DeletionFinality ==
    [][/\ (last'.op = "delete" /\ last'.res = "Ok") => ~exists(fs')
       /\ (~exists(fs) /\ exists(fs'))
            => last'.op \in {"open_new", "new", "open_or_new"}
               /\ last'.res = "Ok"
       /\ (~exists(fs) /\ last'.op = "open")
            => last'.res = "IoError" /\ cells' = cells /\ fs' = fs]_vars

DeletionWitness ==
    /\ \E c \in Cell : cells[c].st = "Deleted"
    /\ ~exists(fs)
    /\ last.op = "open" /\ last.res = "IoError" /\ ~last.fault

FailedFlushFatal ==
    \A c \in Cell :
        (cells[c].st \in {"Closed", "Deleted"} /\ ~cells[c].flushed)
        => mode \in {"panicking", "aborted"}

FailedFlushWitness ==
    \E c \in Cell :
        cells[c].st = "Closed" /\ ~cells[c].flushed /\ mode = "panicking"

\* C9: an instance goes Uninitialized -> Live -> Closed or Deleted and then
\* never changes; a Live instance has written nothing; an instance that went
\* out of scope normally has written once, and what it wrote is the encoding
\* of the value it held at that moment.
SinglePassLifecycle ==
    [][\A c \in Cell :
        /\ <<cells[c].st, cells'[c].st>> \in
              {<<"Uninitialized", "Uninitialized">>, <<"Uninitialized", "Live">>,
               <<"Live", "Live">>, <<"Live", "Closed">>, <<"Live", "Deleted">>,
               <<"Closed", "Closed">>, <<"Deleted", "Deleted">>}
        /\ cells[c].st \in {"Closed", "Deleted"} => cells'[c] = cells[c]
        /\ cells'[c].st = "Live" => cells'[c].writes = 0
        /\ (Live(c) /\ cells'[c].st = "Closed" /\ cells'[c].flushed)
             => /\ cells'[c].writes = 1
                /\ cells'[c].val = cells[c].val
                /\ fs'.dir = cells[c].ino
                     => SubSeq(Contents(fs'), 1, Len(encode(cells[c].val)))
                          = encode(cells[c].val)]_vars

LifecycleWitness ==
    \E c \in Cell :
        /\ cells[c].st = "Closed" /\ cells[c].flushed /\ cells[c].writes = 1
        /\ cells[c].val # Default
        /\ mode = "running"
        /\ fs.dir # NoFile /\ Contents(fs) = encode(cells[c].val)

\* C10: an open_or_new that creates the file returns the default value; when
\* that instance, alone on the path, has gone out of scope with a successful
\* flush holding v, the next open_or_new takes the open branch and returns v;
\* and after the flush of that second instance the file decodes to the value
\* it held.
OpenOrNewIdempotent ==
    \A c \in Cell :
        /\ (JustMade(c, "open_or_new") /\ cells[c].origin = "open_new")
             => cells[c].val = Default
        /\ (cells[c].origin = "open_new" /\ FlushedAlone(c)
            /\ JustMade(c + 1, "open_or_new"))
             => cells[c + 1].origin = "open" /\ cells[c + 1].val = cells[c].val
        /\ (FlushedAlone(c) /\ n = c /\ mode = "running")
             => /\ exists(fs)
                /\ decode_from(Contents(fs)) = [ok |-> TRUE, val |-> cells[c].val]

OpenOrNewWitness ==
    /\ cells[1].origin = "open_new" /\ FlushedAlone(1)
    /\ cells[1].val # Default
    /\ JustMade(2, "open_or_new")
    /\ cells[2].origin = "open" /\ cells[2].val = cells[1].val

\* The encoding of v is at the start of `bytes`.
BeginsWith(bytes, v) ==
    /\ Len(encode(v)) <= Len(bytes)
    /\ SubSeq(bytes, 1, Len(encode(v))) = encode(v)

\* C11: when a file exists, open_or_new does what open does: it returns an
\* error and leaves file and instances alone unless the file decodes and the
\* reopen succeeds, and then it returns the decoded value on the truncated
\* file; a file that is empty or does not decode is never replaced.  Only
\* when no file exists does it do what new does: create the file and return
\* the default value.
OpenOrNewByExistence ==
    [][last'.op = "open_or_new" =>
        IF exists(fs)
        THEN /\ last'.res \in {"Ok", "IoError", "DecodeError"}
             /\ last'.res = "DecodeError" <=>
                  (~ValidEncoding(Contents(fs)) /\ ~last'.fault)
             /\ last'.res = "IoError" => last'.fault
             /\ last'.res # "Ok" => fs' = fs /\ cells' = cells
             /\ last'.res = "Ok" =>
                  /\ cells'[n + 1].st = "Live"
                  /\ cells'[n + 1].origin = "open"
                  /\ BeginsWith(Contents(fs), cells'[n + 1].val)
                  /\ fs'.dir = fs.dir /\ Contents(fs') = <<>>
        ELSE /\ last'.res \in {"Ok", "IoError"}
             /\ last'.res = "IoError" => last'.fault /\ fs' = fs /\ cells' = cells
             /\ last'.res = "Ok" =>
                  /\ cells'[n + 1].st = "Live"
                  /\ cells'[n + 1].origin = "open_new"
                  /\ cells'[n + 1].val = Default
                  /\ exists(fs') /\ Contents(fs') = <<>>]_vars

OpenOrNewInvalidWitness ==
    /\ last.op = "open_or_new" /\ last.res = "DecodeError"
    /\ exists(fs) /\ ~ValidEncoding(Contents(fs))
    /\ \A c \in Cell : cells[c].st = "Uninitialized"

\* What a call of open_new(p, v) does in one step: it fails on a failing
\* file-system call and changes nothing, or it returns a Live instance
\* holding v (the next instance in construction order) on the file, which
\* exists and is empty, and leaves the other files and instances as they are.
CreatesWith(v) ==
    \/ /\ last'.res = "IoError" /\ last'.fault
       /\ fs' = fs /\ cells' = cells /\ mode' = mode
    \/ /\ last'.res = "Ok" /\ ~last'.fault
       /\ exists(fs') /\ Contents(fs') = <<>>
       /\ exists(fs) => fs'.dir = fs.dir
       /\ \A i \in Inode \ {fs'.dir} : fs'.data[i] = fs.data[i]
       /\ cells'[n + 1] = FileBox("open_new", v, fs'.dir)
       /\ \A c \in Cell \ {n + 1} :
            cells'[c] = [cells[c] EXCEPT !.alone = @ /\ ~Live(c)]
       /\ mode' = mode

\* C12: a call of new(p) does what a call of open_new(p, Default) does, from
\* every state of the file system (same result, same value in memory, same
\* file); and when the instance it made, alone on the path, is flushed
\* holding the default value, the open that follows returns the default.
NewIsOpenNewDefault ==
    [][/\ last'.op = "new" => CreatesWith(Default)
       /\ last'.op = "open_new" => \E v \in Val : CreatesWith(v)
       /\ \A c \in Cell :
            (cells'[c].origin = "open_new" /\ cells'[c].st = "Closed"
             /\ cells'[c].flushed /\ cells'[c].alone
             /\ cells'[c].val = Default
             /\ last'.op = "open" /\ last'.res = "Ok" /\ n = c)
            => cells'[c + 1].val = Default]_vars

NewWitness ==
    /\ JustMade(2, "new")
    /\ cells[1].st = "Closed" /\ cells[1].val # Default
    /\ Live(2) /\ cells[2].origin = "open_new" /\ cells[2].val = Default
    /\ cells[2].ino = fs.dir
    /\ exists(fs) /\ Contents(fs) = <<>>

\* C13: an open that returns an error leaves the path, the bytes of every
\* file and the instances as they were; an open changes the file only when
\* it returns Ok, and then the file held an encoding of the value returned.
FailedOpenChangesNothing ==
    [][last'.op = "open" =>
        /\ last'.res # "Ok" => fs' = fs /\ cells' = cells
        /\ fs' # fs =>
             /\ last'.res = "Ok"
             /\ BeginsWith(Contents(fs), cells'[n + 1].val)
             /\ fs'.dir = fs.dir /\ Contents(fs') = <<>>]_vars

\* An open failed on a failing file-system call although the file decodes,
\* and the file is as it was.
FailedOpenWitness ==
    /\ last.op = "open" /\ last.res = "IoError" /\ last.fault
    /\ exists(fs) /\ ValidEncoding(Contents(fs))
    /\ \A c \in Cell : cells[c].st = "Uninitialized"

\* C14: in the step in which an instance that was alone on its path goes out
\* of scope and its drop returns, the file at the path becomes exactly the
\* encoding of the value the instance holds, whatever the constructor and
\* however long the encoding the file held when the instance was opened.
FlushLeavesNewEncoding ==
    [][\A c \in Cell :
        (Live(c) /\ cells'[c].st = "Closed" /\ cells'[c].flushed
         /\ cells'[c].alone)
        => /\ fs'.dir = cells[c].ino
           /\ Contents(fs) = <<>>
           /\ Contents(fs') = encode(cells[c].val)]_vars

\* An instance made by open from a file that held a longer encoding was
\* flushed holding a shorter value, and the file holds just that encoding.
ShorterFlushWitness ==
    /\ cells[1].origin = "open_new" /\ FlushedAlone(1)
    /\ cells[2].origin = "open" /\ FlushedAlone(2)
    /\ Len(encode(cells[2].val)) < Len(encode(cells[1].val))
    /\ last.op = "drop"
    /\ exists(fs) /\ Contents(fs) = encode(cells[2].val)

\* C15: while an instance is Live on the path, an open cannot return an
\* instance: open returns Ok only for a file that decodes, and the file of a
\* Live instance does not decode.
HeldPathNotOpenable ==
    \A c \in Cell :
        (Live(c) /\ cells[c].ino = fs.dir) => ~decode_from(Contents(fs)).ok

\* C15, amended: while an instance is Live and no other instance has been
\* Live during its life, it holds the path, every open returns an error and
\* leaves the file and the instances as they were; and the open that follows
\* its flush returns the value it held last.
SoleHeldPathOpenFails ==
    [][\A c \in Cell :
        /\ (Live(c) /\ cells[c].alone)
             => /\ cells[c].ino = fs.dir
                /\ ~decode_from(Contents(fs)).ok
                /\ last'.op = "open"
                     => /\ last'.res \in {"DecodeError", "IoError"}
                        /\ last'.res = "IoError" => last'.fault
                        /\ fs' = fs /\ cells' = cells
        /\ (FlushedAlone(c) /\ n = c /\ last'.op = "open"
            /\ last'.res = "Ok")
             => cells'[c + 1].val = cells[c].val]_vars

\* An open has just failed on the file of a sole Live instance that holds a
\* value of its own.
HeldOpenWitness ==
    /\ Live(1) /\ cells[1].alone /\ cells[1].val # Default
    /\ cells[1].ino = fs.dir
    /\ last.op = "open" /\ last.res = "DecodeError"
    /\ cells[2].st = "Uninitialized"

====
